---- MODULE Spec2Model ----
(***************************************************************************)
(* Model of the recommendation engine of src/app.py (Meta Ads Analyzer):   *)
(* generate_ai_optimization_recommendations and the parts of               *)
(* show_ad_results around it: the gauges, the rendering of the list and of *)
(* the action plan, show_demographic_analysis, the metrics and the segment *)
(* block of generate_strategic_analysis, and                               *)
(* generate_performance_recommendations.                                   *)
(*                                                                         *)
(* Numbers.  A Python float is modelled as an integer count of 1/Scale     *)
(* units (fixed point, four decimals): ctr 0.005 is 50, frequency 3.5 is   *)
(* 35000, R$ 25.00 is 250000.  Products with a literal (x * 0.7, x * 1.2)  *)
(* are written with the literal as a fraction of integers, and a true      *)
(* division rounds towards zero at the fourth decimal.                     *)
(* Counters (impressions, clicks, conversions) are plain integers, so a    *)
(* ratio of counters is Ratio and money per counter is PerUnit.            *)
(***************************************************************************)
EXTENDS Integers, Sequences, FiniteSets, TLC

VARIABLES
    pc,              \* position in show_ad_results / the engine
    ad_details,      \* AdContext argument (dict)
    insights,        \* InsightRecord argument (dict)
    temporal_data,   \* TemporalSeries argument (DataFrame or None)
    demographics,    \* Demographics argument (list of dicts)
    args0,           \* the four arguments as they were when the call began
    recommendations, \* the engine's local list `recommendations`
    emitted,         \* `recommendations` as it was just before the sort of line 227
    demo_df,         \* the engine's local DataFrame demo_df (rows with cpa)
    error,           \* the exception that left the engine, "none" if none
    gauges,          \* conversion_rate / cost_per_conversion of the Performance tab
    strategic,       \* derived metrics of generate_strategic_analysis
    tab4,            \* what the recommendations tab has rendered
    tab5,            \* what the demographic-analysis tab has rendered
    top_segment,     \* the local top_segment of generate_strategic_analysis
    quick,           \* the list of generate_performance_recommendations, as rendered
    calls,           \* how many times the engine has been called
    first_output,    \* the list the first call returned
    sorted_before    \* the frame sort_values was last given and the row it put first

vars == <<pc, ad_details, insights, temporal_data, demographics, args0,
          recommendations, emitted, demo_df, error, gauges, strategic, tab4, tab5,
          top_segment, quick, calls, first_output, sorted_before>>

-----------------------------------------------------------------------------
(* Bounds of the model *)

\* longest Demographics list
MaxDemoRows == 2
\* longest TemporalSeries
MaxDays == 2

-----------------------------------------------------------------------------
(* Values of dict fields *)

\* fixed-point unit of a float
Scale == 10000

Num(n)    == [tag |-> "num",     v |-> n]   \* an int or float
NumStr(n) == [tag |-> "numstr",  v |-> n]   \* a str that float() parses, e.g. '4.0'
EmptyStr  == [tag |-> "empty",   v |-> 0]   \* ''
BadStr    == [tag |-> "badstr",  v |-> 0]   \* a str float() rejects, e.g. 'abc'
Missing   == [tag |-> "missing", v |-> 0]   \* the key is not in the dict
NoneValue == [tag |-> "none",    v |-> 0]   \* None

\* float('inf'): greater than every finite value of the model
Infinity == 2000000000

\* a str that float() parses to an infinity: 'inf', 'Infinity', '1e999'
InfStr == NumStr(Infinity)

\* dict.get(key, default)
Get(d, key, default) == IF d[key].tag = "missing" THEN default ELSE d[key]

\* safe_float(value, default): float(value); the default for None and '' and
\* for a value float() rejects (its ValueError/TypeError is caught)
safe_float(value, default) ==
    IF value.tag \in {"num", "numstr"} THEN value.v ELSE default

\* the outcome of a call: its value, or the exception that leaves it
Ok(v) == [raised |-> FALSE, v |-> v]
OverflowError == [raised |-> TRUE, v |-> 0]

\* safe_int(value, default): int(float(value)); the default for None and ''
\* and for a value float() rejects. int() of an infinity raises OverflowError,
\* which the except clause (TypeError, ValueError) does not catch.
safe_int(value, default) ==
    IF value.tag \in {"num", "numstr"}
    THEN IF value.v = Infinity
         THEN OverflowError
         ELSE Ok(value.v)
    ELSE Ok(default)

\* format(value, '.1f') / format(value, '.2f') inside an f-string: defined for
\* numbers only; a str raises ValueError (unknown format code 'f')
FormatFRaises(value) == value.tag # "num"

\* count / count as a float (a ratio, in 1/Scale units)
Ratio(a, b) == (a * Scale) \div b

\* money / count as a float (money, in 1/Scale units)
PerUnit(m, n) == m \div n

-----------------------------------------------------------------------------
(* Benchmark table *)

\* a table whose fallback is the fixed cost-per-conversion benchmark 50.0
calculate_industry_benchmark_fallback_50(objective) ==
    CASE objective = "CONVERSIONS"     -> 250000
      [] objective = "LEAD_GENERATION" -> 150000
      [] objective = "LINK_CLICKS"     -> 12000
      [] objective = "REACH"           -> 50000
      [] objective = "BRAND_AWARENESS" -> 100000
      [] objective = "VIDEO_VIEWS"     -> 5000
      [] OTHER                         -> 500000

\* calculate_industry_benchmark(objective)
calculate_industry_benchmark(objective) ==
    CASE objective = "CONVERSIONS"     -> 250000
      [] objective = "LEAD_GENERATION" -> 150000
      [] objective = "LINK_CLICKS"     -> 12000
      [] objective = "REACH"           -> 50000
      [] objective = "BRAND_AWARENESS" -> 100000
      [] objective = "VIDEO_VIEWS"     -> 5000
      [] OTHER                         -> 200000

\* avg_ctr_benchmark = 1.5 (percent)
avg_ctr_benchmark == 15000

-----------------------------------------------------------------------------
(* Recommendation records *)

\* a formatted string: its fixed text and the names and numbers interpolated
Txt(text, names, nums) == [text |-> text, names |-> names, nums |-> nums]

Rec(title, severity, diagnosis, actions, impact, timeframe) ==
    [title |-> title, severity |-> severity, diagnosis |-> diagnosis,
     actions |-> actions, expected_impact |-> impact, timeframe |-> timeframe]

\* a text test that fires at 125 words too
TextTooLongAtThreshold(creative_data) ==
    creative_data.has_primary_text /\ creative_data.word_count >= 125

\* 'primary_text' in creative_data and len(text.split()) > 125
TextTooLong(creative_data) ==
    creative_data.has_primary_text /\ creative_data.word_count > 125

\* a test of the key only
CTAKeyMissing(creative_data) == ~creative_data.has_cta

\* 'cta' not in creative_data or not creative_data['cta']
CTAMissing(creative_data) == ~creative_data.has_cta \/ creative_data.cta = ""

\* analyze_creative_elements(creative_data): the list it returns
analyze_creative_elements(creative_data) ==
    (IF TextTooLong(creative_data)
     THEN << Rec("Otimizacao de Texto", "medium",
                 Txt("Texto muito longo", <<>>, <<creative_data.word_count>>),
                 << Txt("Reduzir texto em 30-40%", <<>>, <<>>),
                    Txt("Testar versao com bullet points", <<>>, <<>>),
                    Txt("Mover detalhes para a descricao ou website", <<>>, <<>>) >>,
                 "Aumento de 10-20% no CTR", "Imediato") >>
     ELSE << >>)
    \o
    (IF CTAMissing(creative_data)
     THEN << Rec("Adicionar Call-to-Action", "high",
                 Txt("Nenhum CTA especifico identificado no criativo", <<>>, <<>>),
                 << Txt("Adicionar CTA claro", <<>>, <<>>),
                    Txt("Posicionar CTA nos primeiros 3 segundos", <<>>, <<>>),
                    Txt("Testar 2-3 variacoes de CTA", <<>>, <<>>) >>,
                 "Aumento de 15-25% nas conversoes", "1-3 dias") >>
     ELSE << >>)

-----------------------------------------------------------------------------
(* generate_ai_optimization_recommendations: the rules, in source order *)

\* ad_details.get('ad_type', 'desconhecido')
creative_type(ad) == IF ad.has_ad_type THEN ad.ad_type ELSE "desconhecido"

\* the list another call has left behind
ListOfEarlierCall == recommendations

\* recommendations = []
FreshList == << >>

\* 1. CTR: ctr = safe_float(insights.get('ctr', 0)) * 100
ctr_percent(ins) == safe_float(Get(ins, "ctr", Num(0)), 0) * 100

\* if ctr < avg_ctr_benchmark * 0.7
CTRFires(ins) == ctr_percent(ins) * 10 < avg_ctr_benchmark * 7

\* safe_float(insights.get('frequency', 0)) > 3
CTRCitesFrequency(ins) == safe_float(Get(ins, "frequency", Num(0)), 0) > 3 * Scale

\* safe_float(insights.get('cpm', 0)) > avg_ctr_benchmark * 1.3
CTRCitesCPM(ins) == safe_float(Get(ins, "cpm", Num(0)), 0) * 10 > avg_ctr_benchmark * 13

\* the two diagnosis f-strings format the raw dict value with :.1f / :.2f
CTRDiagnosisRaises(ins) ==
    \/ CTRCitesFrequency(ins) /\ FormatFRaises(Get(ins, "frequency", Num(0)))
    \/ CTRCitesCPM(ins) /\ FormatFRaises(Get(ins, "cpm", Num(0)))

CTRRec(ad, ins) ==
    Rec("Otimizacao de CTR Urgente", "high",
        Txt("CTR muito baixo",
            (IF CTRCitesFrequency(ins) THEN <<"Frequencia alta">> ELSE <<>>) \o
            (IF CTRCitesCPM(ins) THEN <<"CPM elevado">> ELSE <<>>),
            <<ctr_percent(ins), avg_ctr_benchmark>>),
        << Txt("Testar 3 novos criativos", <<creative_type(ad)>>, <<>>),
           (IF creative_type(ad) \in {"image", "carousel"}
            THEN Txt("Reduzir texto principal para menos de 125 caracteres", <<>>, <<>>)
            ELSE IF creative_type(ad) = "video"
            THEN Txt("Adicionar legendas claras", <<>>, <<>>)
            ELSE Txt("Simplificar mensagem", <<>>, <<>>)),
           Txt("Ajustar publico-alvo", <<>>, <<>>),
           Txt("Implementar rodizio de criativos a cada 3 dias", <<>>, <<>>) >>,
        "Aumento de 30-50% no CTR", "3-5 dias para ver resultados")

\* 2. cost per conversion
cost_per_conv(ins) == safe_float(Get(ins, "cost_per_conversion", Num(0)), 0)
conv_rate(ins) == safe_float(Get(ins, "conversion_rate", Num(0)), 0)

\* if cost_per_conv > 0 and conv_rate > 0: ... if cost_per_conv > benchmark_cpa * 1.2
CostFires(ad, ins) ==
    /\ cost_per_conv(ins) > 0
    /\ conv_rate(ins) > 0
    /\ cost_per_conv(ins) * 10 > calculate_industry_benchmark(ad.campaign_objective) * 12

CostRec(ad, ins) ==
    Rec("Reducao de Custo por Conversao", "high",
        Txt("Custo por conversao acima do benchmark", <<>>,
            <<cost_per_conv(ins), calculate_industry_benchmark(ad.campaign_objective)>>),
        << Txt("Otimizar pagina de destino", <<>>, <<>>),
           Txt("Testar novos CTAs no anuncio e na landing page", <<>>, <<>>),
           Txt("Ajustar bid strategy", <<>>, <<>>),
           Txt("Segmentar publico semelhante a converters (lookalike)", <<>>, <<>>) >>,
        "Reducao de 20-35% no CPA", "1-2 semanas para otimizacao completa")

\* 3. frequency: freq = safe_float(insights.get('frequency', 0)); if freq > 3.5
freq_of(ins) == safe_float(Get(ins, "frequency", Num(0)), 0)

\* a rule that fires at the threshold too
FrequencyFiresAtThreshold(ins) == freq_of(ins) * 10 >= 35 * Scale

FrequencyFires(ins) == freq_of(ins) * 10 > 35 * Scale

FrequencyRec(ad, ins) ==
    Rec("Rotacao de Criativos Necessaria", "medium",
        Txt("Frequencia alta indica saturacao do publico", <<>>, <<freq_of(ins)>>),
        << Txt("Pausar este anuncio por 7 dias", <<>>, <<>>),
           Txt("Criar 2-3 variacoes com novos criativos", <<>>, <<>>),
           Txt("Expandir publico-alvo em 15-20%", <<>>, <<>>) >>
        \o (IF ad.has_ad_type /\ ad.ad_type = "video"
            THEN << Txt("Testar versao resumida do video (15-30s)", <<>>, <<>>),
                    Txt("Adicionar hook nos primeiros 3 segundos", <<>>, <<>>) >>
            ELSE << >>),
        "Melhoria de 15-25% nas taxas de engajamento", "Imediato")

\* a frame built from every dict, 'age' or not
DemoFrameKeepsAll(demo) ==
    [i \in 1..Len(demo) |->
        [age |-> IF demo[i].has_age THEN demo[i].age ELSE "N/A",
         gender |-> IF demo[i].has_gender THEN demo[i].gender ELSE "N/A",
         impressions |-> safe_int(demo[i].impressions, 0).v,
         spend |-> demo[i].spend,
         conversions |-> demo[i].conversions]]

\* 4. demographics: the rows of demo_df, built from the dicts that have 'age'
DemoFrame(demo) ==
    LET withAge == SelectSeq(demo, LAMBDA d : d.has_age)
    IN [i \in 1..Len(withAge) |->
            [age |-> withAge[i].age,
             gender |-> IF withAge[i].has_gender THEN withAge[i].gender ELSE "N/A",
             impressions |-> safe_int(withAge[i].impressions, 0).v,
             spend |-> withAge[i].spend,
             conversions |-> withAge[i].conversions]]

\* a safe_int of the list comprehension raises
DemoFrameRaises(demo) ==
    \E i \in 1..Len(demo) : demo[i].has_age /\ safe_int(demo[i].impressions, 0).raised

\* demo_df['cpa'] = demo_df['spend'] / demo_df['conversions'].replace(0, 1)
SegmentCpa(row) ==
    PerUnit(row.spend, IF row.conversions = 0 THEN 1 ELSE row.conversions)

WithCpa(df) ==
    [i \in 1..Len(df) |->
        [age |-> df[i].age, gender |-> df[i].gender, impressions |-> df[i].impressions,
         spend |-> df[i].spend, conversions |-> df[i].conversions,
         cpa |-> SegmentCpa(df[i])]]

\* demo_df.sort_values('cpa', ascending=False).iloc[0]: a row of greatest cpa.
\* The default sort is not a stable sort, so among equal cpa any row may come first.
WorstPerforming(df) ==
    {i \in 1..Len(df) : \A j \in 1..Len(df) : df[j].cpa <= df[i].cpa}

\* sort_values is a function of the frame: sorting a frame it has sorted before
\* puts the same row first
SameSortAsBefore(df, w) == sorted_before.frame = df => sorted_before.first = w

\* if worst_performing['cpa'] > cost_per_conv * 1.5
DemoFires(worst, ins) == worst.cpa * 10 > cost_per_conv(ins) * 15

\* the diagnosis divides by cost_per_conv; a numpy float divided by 0.0 is inf
DemoRec(worst, ins) ==
    Rec("Ajuste de Segmentacao Demografica", "medium",
        Txt("Segmento tem CPA acima da media",
            <<worst.age, worst.gender>>
                \o (IF cost_per_conv(ins) = 0 THEN <<"inf">> ELSE <<>>),
            <<worst.cpa>>
                \o (IF cost_per_conv(ins) = 0 THEN <<>>
                    ELSE <<((worst.cpa * 100) \div cost_per_conv(ins)) - 100>>)),
        << Txt("Reduzir orcamento em 30%", <<worst.age, worst.gender>>, <<>>),
           Txt("Criar anuncio especifico para este segmento", <<>>, <<>>),
           Txt("Testar mensagens personalizadas para este grupo", <<>>, <<>>) >>,
        "Reducao de 15-20% no CPA geral", "5-7 dias")

\* 5. temporal: date_start.dt.day_name() and date_start.dt.hour
DayNames == <<"Monday", "Tuesday", "Wednesday", "Thursday", "Friday", "Saturday", "Sunday">>
day_name(date) == DayNames[(date.day % 7) + 1]

\* groupby sorts its keys: the day names in string order
SortedDayNames ==
    <<"Friday", "Monday", "Saturday", "Sunday", "Thursday", "Tuesday", "Wednesday">>

RECURSIVE SumConversions(_)
\* Series.sum() of the conversions column of `rows`
SumConversions(rows) ==
    IF rows = << >> THEN 0
    ELSE Head(rows).conversions + SumConversions(Tail(rows))

DaySum(rows, name) ==
    SumConversions(SelectSeq(rows, LAMBDA r : day_name(r.date_start) = name))
HourSum(rows, h) ==
    SumConversions(SelectSeq(rows, LAMBDA r : r.date_start.hour = h))

\* temporal_data.groupby('day_of_week')['conversions'].sum().idxmax():
\* the first key, in key order, whose sum is greatest (rows non-empty)
BestDay(rows) ==
    LET present == {k \in 1..7 : \E i \in 1..Len(rows) :
                        day_name(rows[i].date_start) = SortedDayNames[k]}
        best == CHOOSE k \in present :
                    /\ \A j \in present :
                          DaySum(rows, SortedDayNames[j]) <= DaySum(rows, SortedDayNames[k])
                    /\ \A j \in present :
                          j < k => DaySum(rows, SortedDayNames[j]) < DaySum(rows, SortedDayNames[k])
    IN SortedDayNames[best]

\* temporal_data.groupby('hour')['conversions'].sum().idxmax()
BestHour(rows) ==
    LET present == {rows[i].date_start.hour : i \in 1..Len(rows)}
    IN CHOOSE h \in present :
          /\ \A g \in present : HourSum(rows, g) <= HourSum(rows, h)
          /\ \A g \in present : g < h => HourSum(rows, g) < HourSum(rows, h)

\* a scheduling recommendation of a severity outside the ranking
ScheduleRecInformative(rows) ==
    Rec("Otimizacao de Agendamento", "info",
        Txt("Melhor desempenho", <<BestDay(rows)>>, <<BestHour(rows)>>),
        << Txt("Concentrar 40% do orcamento", <<BestDay(rows)>>, <<>>),
           Txt("Aumentar bids em 15% entre", <<>>, <<BestHour(rows) - 1, BestHour(rows) + 1>>),
           Txt("Reduzir bids em 20% nos horarios de pior desempenho", <<>>, <<>>) >>,
        "Aumento de 10-15% na eficiencia do orcamento", "Proxima semana")

ScheduleRec(rows) ==
    Rec("Otimizacao de Agendamento", "low",
        Txt("Melhor desempenho", <<BestDay(rows)>>, <<BestHour(rows)>>),
        << Txt("Concentrar 40% do orcamento", <<BestDay(rows)>>, <<>>),
           Txt("Aumentar bids em 15% entre", <<>>, <<BestHour(rows) - 1, BestHour(rows) + 1>>),
           Txt("Reduzir bids em 20% nos horarios de pior desempenho", <<>>, <<>>) >>,
        "Aumento de 10-15% na eficiencia do orcamento", "Proxima semana")

\* a ranking that puts low first
priority_order_reversed(severity) ==
    CASE severity = "high" -> 2
      [] severity = "medium" -> 1
      [] severity = "low" -> 0

\* 7. priority_order = {'high': 0, 'medium': 1, 'low': 2}
priority_order(severity) ==
    CASE severity = "high" -> 0
      [] severity = "medium" -> 1
      [] severity = "low" -> 2

\* an insertion that puts an element before the elements of equal key
InsertByKeyBeforeEqual(sorted, r) ==
    LET before == {i \in 1..Len(sorted) :
                      priority_order(sorted[i].severity) < priority_order(r.severity)}
        n == Cardinality(before)
    IN SubSeq(sorted, 1, n) \o <<r>> \o SubSeq(sorted, n + 1, Len(sorted))

\* list.sort inserts each element after the elements whose key is not greater
InsertByKey(sorted, r) ==
    LET after == {i \in 1..Len(sorted) :
                     priority_order(sorted[i].severity) <= priority_order(r.severity)}
        n == Cardinality(after)
    IN SubSeq(sorted, 1, n) \o <<r>> \o SubSeq(sorted, n + 1, Len(sorted))

RECURSIVE SortFrom(_, _)
SortFrom(sorted, rest) ==
    IF rest = << >> THEN sorted
    ELSE SortFrom(InsertByKey(sorted, Head(rest)), Tail(rest))

\* recommendations.sort(key=lambda x: priority_order[x['severity']])
SortBySeverity(recs) == SortFrom(<< >>, recs)

-----------------------------------------------------------------------------
(* Derived metrics of the display shell *)

\* the outcome of a Python expression: a float, or ZeroDivisionError
ZeroDivisionError == [raised |-> TRUE, v |-> 0]

\* a / b for two counters, and money / counter
PyRatio(a, b) == IF b = 0 THEN ZeroDivisionError ELSE Ok(Ratio(a, b))
PyPerUnit(m, n) == IF n = 0 THEN ZeroDivisionError ELSE Ok(PerUnit(m, n))
\* r * k
Times(r, k) == IF r.raised THEN r ELSE Ok(r.v * k)

Counter(ins, key) == safe_float(Get(ins, key, Num(0)), 0)

\* show_ad_results, Performance tab:
\* conversion_rate = (conversions / clicks) * 100 if clicks > 0 else 0
GaugeConversionRate(ins) ==
    IF Counter(ins, "clicks") > 0
    THEN Times(PyRatio(Counter(ins, "conversions"), Counter(ins, "clicks")), 100)
    ELSE Ok(0)

\* cost_per_conversion = spend / conversions if conversions > 0 else 0
GaugeCostPerConversion(ins) ==
    IF Counter(ins, "conversions") > 0
    THEN PyPerUnit(Counter(ins, "spend"), Counter(ins, "conversions"))
    ELSE Ok(0)

\* generate_strategic_analysis, preliminary calculations
StrategicCtr(ins) ==
    IF Counter(ins, "impressions") > 0 THEN Ok(ctr_percent(ins)) ELSE Ok(0)

StrategicConversionRate(ins) ==
    IF Counter(ins, "clicks") > 0
    THEN Times(PyRatio(Counter(ins, "conversions"), Counter(ins, "clicks")), 100)
    ELSE Ok(0)

StrategicCostPerConversion(ins) ==
    IF Counter(ins, "conversions") > 0
    THEN PyPerUnit(Counter(ins, "spend"), Counter(ins, "conversions"))
    ELSE Ok(0)

\* cpm = (spend / impressions) * 1000 if impressions > 0 else 0
StrategicCpm(ins) ==
    IF Counter(ins, "impressions") > 0
    THEN Times(PyPerUnit(Counter(ins, "spend"), Counter(ins, "impressions")), 1000)
    ELSE Ok(0)

\* cpc with the guard left out
StrategicCpcUnguarded(ins) == PyPerUnit(Counter(ins, "spend"), Counter(ins, "clicks"))

\* cpc = spend / clicks if clicks > 0 else 0
StrategicCpc(ins) ==
    IF Counter(ins, "clicks") > 0
    THEN PyPerUnit(Counter(ins, "spend"), Counter(ins, "clicks"))
    ELSE Ok(0)

NoMetrics == [computed |-> FALSE]

-----------------------------------------------------------------------------
(* show_demographic_analysis: the table of the demographic tab *)

\* the age strings that are two integers joined by '-', and what
\* map(int, age_str.split('-')) gives for each
RangeBounds(age_str) ==
    CASE age_str = "18-20" -> <<18, 20>>
      [] age_str = "18-24" -> <<18, 24>>
      [] age_str = "25-34" -> <<25, 34>>
      [] age_str = "35-44" -> <<35, 44>>
      [] age_str = "45-54" -> <<45, 54>>
      [] age_str = "55-64" -> <<55, 64>>
      [] age_str = "70-74" -> <<70, 74>>
IsRange(age_str) ==
    age_str \in {"18-20", "18-24", "25-34", "35-44", "45-54", "55-64", "70-74"}

\* age_sort_key(age_str): (65, 100) for '65+', (start, end) for 'start-end',
\* (999, 999) when int() rejects the text ('unknown', 'N/A')
age_sort_key(age_str) ==
    IF age_str = "65+" THEN <<65, 100>>
    ELSE IF IsRange(age_str) THEN RangeBounds(age_str)
    ELSE <<999, 999>>

\* the order of Python tuples
TupleLess(a, b) == a[1] < b[1] \/ (a[1] = b[1] /\ a[2] < b[2])

RECURSIVE SumColumn(_, _)
\* Series.sum() of one column
SumColumn(rows, col) ==
    IF rows = << >> THEN 0 ELSE Head(rows)[col] + SumColumn(Tail(rows), col)

\* df = pd.DataFrame(demographics), age not 'N/A', with the three derived
\* columns, each ratio over its denominator .replace(0, 1)
AnalysisFrame(demo) ==
    LET kept == SelectSeq(demo, LAMBDA d : d.age # "N/A")
    IN [i \in 1..Len(kept) |->
          [age |-> kept[i].age, gender |-> kept[i].gender,
           impressions |-> kept[i].impressions.v, clicks |-> kept[i].clicks,
           conversions |-> kept[i].conversions, spend |-> kept[i].spend,
           ctr |-> Ratio(kept[i].clicks,
                         IF kept[i].impressions.v = 0 THEN 1 ELSE kept[i].impressions.v) * 100,
           conversion_rate |-> Ratio(kept[i].conversions,
                                     IF kept[i].clicks = 0 THEN 1 ELSE kept[i].clicks) * 100,
           cost_per_conversion |-> PerUnit(kept[i].spend,
                                     IF kept[i].conversions = 0 THEN 1
                                     ELSE kept[i].conversions)]]

\* df.groupby(['age', 'gender']).agg(...): one row per (age, gender), the
\* counters and the spend summed, the three ratios averaged, with its sort_key
AgeGenderGroups(df) ==
    {LET rows == SelectSeq(df, LAMBDA r : r.age = k[1] /\ r.gender = k[2])
     IN [age |-> k[1], gender |-> k[2],
         impressions |-> SumColumn(rows, "impressions"),
         clicks |-> SumColumn(rows, "clicks"),
         conversions |-> SumColumn(rows, "conversions"),
         spend |-> SumColumn(rows, "spend"),
         ctr |-> SumColumn(rows, "ctr") \div Len(rows),
         conversion_rate |-> SumColumn(rows, "conversion_rate") \div Len(rows),
         cost_per_conversion |-> SumColumn(rows, "cost_per_conversion") \div Len(rows),
         sort_key |-> age_sort_key(k[1])]
     : k \in {<<df[i].age, df[i].gender>> : i \in 1..Len(df)}}

RECURSIVE SortedTables(_)
\* age_gender_analysis.sort_values('sort_key'): the groups in ascending key
\* order. The default sort is not a stable sort, so groups of equal key may
\* come in any order.
SortedTables(groups) ==
    IF groups = {} THEN {<< >>}
    ELSE UNION {{<<g>> \o t : t \in SortedTables(groups \ {g})} :
                  g \in {m \in groups :
                            \A h \in groups : ~TupleLess(h.sort_key, m.sort_key)}}

\* Series.idxmax() / idxmin() of a column: the first row, in table order,
\* that holds the greatest / least value
IdxMax(table, col) ==
    CHOOSE i \in 1..Len(table) :
        /\ \A j \in 1..Len(table) : table[j][col] <= table[i][col]
        /\ \A j \in 1..(i - 1) : table[j][col] < table[i][col]
IdxMin(table, col) ==
    CHOOSE i \in 1..Len(table) :
        /\ \A j \in 1..Len(table) : table[j][col] >= table[i][col]
        /\ \A j \in 1..(i - 1) : table[j][col] > table[i][col]

\* the rows of the action plan: 'Alta' / 'Media' / 'Baixa', the first action,
\* 'Equipe de Criativos' when the lower-cased title contains 'criativo'
PlanRow(r) ==
    [Prioridade |-> IF r.severity = "high" THEN "Alta"
                    ELSE IF r.severity = "medium" THEN "Media" ELSE "Baixa",
     Acao |-> r.actions[1],
     Responsavel |-> IF r.title = "Rotacao de Criativos Necessaria"
                     THEN "Equipe de Criativos" ELSE "Gestor de Trafego",
     Prazo |-> r.timeframe]

\* the order of the strings 'Alta' < 'Baixa' < 'Média' that sort_values compares
StringOrder(prioridade) ==
    CASE prioridade = "Alta" -> 0
      [] prioridade = "Baixa" -> 1
      [] prioridade = "Media" -> 2

RECURSIVE SortedPlans(_, _)
\* action_plan.sort_values('Prioridade'): the rows `idx` of `rows` in ascending
\* order of the label; rows of equal label may come in any order
SortedPlans(rows, idx) ==
    IF idx = {} THEN {<< >>}
    ELSE UNION {{<<rows[i]>> \o t : t \in SortedPlans(rows, idx \ {i})} :
                  i \in {m \in idx :
                            \A h \in idx : StringOrder(rows[h].Prioridade)
                                              >= StringOrder(rows[m].Prioridade)}}

\* the marker of an entry: st.error / st.warning / st.info by severity
EntryOf(r) ==
    [title |-> r.title,
     marker |-> IF r.severity = "high" THEN "error"
                ELSE IF r.severity = "medium" THEN "warning" ELSE "info"]

NothingRendered == [rendered |-> FALSE, success |-> FALSE, entries |-> << >>,
                    action_plan |-> << >>]

\* what the demographic tab shows
NotShown == [status |-> "not shown", table |-> << >>, best |-> 0, worst |-> 0]
Warned(message) == [status |-> message, table |-> << >>, best |-> 0, worst |-> 0]

-----------------------------------------------------------------------------
(* generate_strategic_analysis: the segment block *)

\* no value has been bound to the name
Unbound == [bound |-> FALSE]

\* df_age_gender: the dicts with 'age' and 'gender'; ctr is
\* clicks / impressions * 100 if impressions > 0 else 0
SegmentFrame(demo) ==
    LET both == SelectSeq(demo, LAMBDA d : d.has_age /\ d.has_gender)
    IN [i \in 1..Len(both) |->
          [age |-> both[i].age, gender |-> both[i].gender,
           ctr |-> IF safe_int(both[i].impressions, 0).v > 0
                   THEN Ratio(both[i].clicks, safe_int(both[i].impressions, 1).v) * 100
                   ELSE 0]]

-----------------------------------------------------------------------------
(* generate_performance_recommendations and its rendering *)

Finding(type, title, actions) == [type |-> type, title |-> title, actions |-> actions]

\* temporal_data['frequency'].mean(); NaN for no rows, which no comparison exceeds
FrequencyMeanAbove35(rows) ==
    rows # << >> /\ (SumColumn(rows, "frequency") \div Len(rows)) * 10 > 35 * Scale

\* generate_performance_recommendations(insights, temporal_data)
generate_performance_recommendations(ins, temporal) ==
    (IF ctr_percent(ins) * 10 < 8 * Scale THEN <<Finding("error", "CTR Baixo", 4)>>
     ELSE IF ctr_percent(ins) * 10 > 25 * Scale THEN <<Finding("success", "CTR Alto", 3)>>
     ELSE << >>)
    \o (IF cost_per_conv(ins) > 50 * Scale
        THEN <<Finding("error", "Custo Alto por Conversao", 4)>> ELSE << >>)
    \o (IF ~temporal.is_none /\ FrequencyMeanAbove35(temporal.rows)
        THEN <<Finding("warning", "Frequencia Elevada", 3)>> ELSE << >>)

NoQuickList == [rendered |-> FALSE, recs |-> << >>, success |-> FALSE, entries |-> << >>]

\* a rendering that shows nothing for an empty list
RenderQuickWithoutSuccess(recs) ==
    [rendered |-> TRUE, recs |-> recs, success |-> FALSE,
     entries |-> [i \in 1..Len(recs) |-> [title |-> recs[i].title, marker |-> recs[i].type]]]

\* lines 1433-1450: st.success for an empty list, else one st.error /
\* st.warning / st.success entry per finding
RenderQuick(recs) ==
    [rendered |-> TRUE, recs |-> recs, success |-> recs = << >>,
     entries |-> [i \in 1..Len(recs) |-> [title |-> recs[i].title, marker |-> recs[i].type]]]

-----------------------------------------------------------------------------
(* Inputs *)

InsightKeys == {"ctr", "frequency", "cpm", "cost_per_conversion", "conversion_rate",
                "impressions", "clicks", "conversions", "spend"}

Ins(ctr, frequency, cpm, cpa, rate, impressions, clicks, conversions, spend) ==
    [k \in InsightKeys |->
        CASE k = "ctr" -> ctr
          [] k = "frequency" -> frequency
          [] k = "cpm" -> cpm
          [] k = "cost_per_conversion" -> cpa
          [] k = "conversion_rate" -> rate
          [] k = "impressions" -> impressions
          [] k = "clicks" -> clicks
          [] k = "conversions" -> conversions
          [] k = "spend" -> spend]

CtrValues == {Missing, Num(50), Num(104), Num(105), NumStr(50), BadStr}
FrequencyValues == {Missing, NoneValue, Num(35000), Num(40000), NumStr(40000), EmptyStr}
CpmValues == {Num(10000), Num(120000), NumStr(120000)}
CostValues == {Missing, Num(300000), Num(500000), Num(1000000)}
RateValues == {Missing, Num(1000)}

\* records that vary the fields the engine reads (counters as in Scenario 1)
EngineInsights ==
    {Ins(c, f, m, k, r, Num(10000), Num(50), Num(5), Num(5000000)) :
        c \in CtrValues, f \in FrequencyValues, m \in CpmValues,
        k \in CostValues, r \in RateValues}

\* records that vary the raw counters
CounterInsights ==
    {Ins(Num(50), Num(40000), Num(120000), Missing, Missing, i, c, v, s) :
        i \in {Num(0), Num(10000)}, c \in {Num(0), Num(50)},
        v \in {Num(0), Num(5)}, s \in {Num(0), Num(5000000)}}

\* Scenario 1 of the specification
Scenario1Insights ==
    Ins(Num(50), Num(40000), Num(120000), Missing, Missing,
        Num(10000), Num(50), Num(5), Num(5000000))
\* Scenario 3: an ad within the CTR and frequency thresholds whose overall
\* cost per conversion is R$ 50
Scenario3Insights ==
    Ins(Num(300), Num(20000), Num(10000), Num(500000), Missing,
        Num(10000), Num(300), Num(10), Num(5000000))
\* an ad with no clicks, conversions or spend
ZeroInsights ==
    Ins(Num(300), Num(20000), Num(0), Missing, Missing,
        Num(10000), Num(0), Num(0), Num(0))
\* the record as the Graph API delivers it: every number a str
StringInsights ==
    Ins(NumStr(50), NumStr(40000), NumStr(120000), NumStr(500000), Missing,
        NumStr(10000), NumStr(50), NumStr(5), NumStr(5000000))

NoCreative == [has_primary_text |-> FALSE, word_count |-> 0, has_cta |-> FALSE, cta |-> ""]
Creatives ==
    {[has_primary_text |-> t, word_count |-> IF t THEN w ELSE 0,
      has_cta |-> c, cta |-> IF c THEN x ELSE ""] :
        t \in BOOLEAN, w \in {125, 126}, c \in BOOLEAN, x \in {"", "Saiba Mais"}}

Ad(objective, has_type, type, has_creative, creative) ==
    [campaign_objective |-> objective, has_ad_type |-> has_type, ad_type |-> type,
     has_creative |-> has_creative, creative |-> creative]

Objectives == {"CONVERSIONS", "LINK_CLICKS", "N/A"}
AdTypes == {"image", "video"}

\* the six objectives of the benchmark table and two that are not in it
TableObjectives ==
    {"CONVERSIONS", "LEAD_GENERATION", "LINK_CLICKS", "REACH", "BRAND_AWARENESS",
     "VIDEO_VIEWS"}
AllObjectives == TableObjectives \cup {"N/A", "OUTCOME_SALES"}

\* records with a conversion_rate, whose cost_per_conversion varies
BenchmarkInsights ==
    {Ins(Num(300), Num(20000), Num(10000), k, Num(1000),
         Num(10000), Num(300), Num(10), Num(5000000)) :
        k \in {Num(240000), Num(300000), Num(500000), Num(600000), Num(1000000)}}

\* ad_details as show_real_analysis builds it: no ad_type, no creative
PlainAds == {Ad(o, FALSE, "", FALSE, NoCreative) : o \in Objectives}
TypedAds == {Ad(o, TRUE, t, FALSE, NoCreative) : o \in Objectives, t \in AdTypes}
CreativeAds == {Ad("CONVERSIONS", TRUE, t, TRUE, c) : t \in AdTypes, c \in Creatives}

DemoRow(has_age, age, has_gender, gender, spend, conversions) ==
    [has_age |-> has_age, age |-> age, has_gender |-> has_gender, gender |-> gender,
     impressions |-> Num(1000), clicks |-> 10, spend |-> spend, conversions |-> conversions]

\* a row whose impressions field is a str of infinite magnitude
InfImpressions(row) == [row EXCEPT !.impressions = InfStr]

DemoRows ==
    { DemoRow(TRUE, "25-34", TRUE, "male", 1000000, 1),
      DemoRow(TRUE, "55-64", TRUE, "female", 2000000, 1),
      DemoRow(TRUE, "18-24", TRUE, "female", 1000000, 0),
      DemoRow(TRUE, "65+", FALSE, "", 600000, 2),
      DemoRow(FALSE, "", TRUE, "male", 3000000, 1),
      InfImpressions(DemoRow(TRUE, "35-44", TRUE, "male", 1000000, 1)) }

\* Scenario 3 of the specification
Scenario3Demographics ==
    << DemoRow(TRUE, "25-34", TRUE, "male", 1000000, 1),
       DemoRow(TRUE, "55-64", TRUE, "female", 2000000, 1) >>

\* rows that differ in their age bucket only
AgeRow(age) == DemoRow(TRUE, age, TRUE, "male", 1000000, 1)
AgeBuckets == {"18-20", "18-24", "65+", "70-74", "unknown"}

\* Scenario 4 of the specification
Scenario4Demographics ==
    << AgeRow("45-54"), AgeRow("18-24"), AgeRow("65+"), AgeRow("35-44") >>

BucketDemographics ==
    {Scenario4Demographics} \cup {<<AgeRow(a), AgeRow(b)>> : a, b \in AgeBuckets}

\* two rows of one (age, gender) segment
SameSegmentDemographics ==
    << DemoRow(TRUE, "25-34", TRUE, "male", 1000000, 1),
       DemoRow(TRUE, "25-34", TRUE, "male", 200000, 2) >>

AllDemographics == UNION {[1..n -> DemoRows] : n \in 0..MaxDemoRows}

BaseColumns == {"date_start", "conversions", "frequency"}
NoTemporal == [is_none |-> TRUE, columns |-> {}, rows |-> << >>]
StartDays == {0, 4}
DayConversions == {0, 2}

\* daily series (time_increment 1): consecutive dates at midnight, ascending
AllSeries ==
    UNION {{[is_none |-> FALSE, columns |-> BaseColumns,
             rows |-> [i \in 1..n |->
                         [date_start |-> [day |-> s + i - 1, hour |-> 0],
                          conversions |-> c[i], frequency |-> 40000]]] :
                s \in StartDays, c \in [1..n -> DayConversions]} : n \in 0..MaxDays}

Args(ad, ins, temporal, demo) ==
    [ad_details |-> ad, insights |-> ins, temporal_data |-> temporal, demographics |-> demo]

\* the calls explored: each family varies one argument over its whole set
Calls ==
    {Args(ad, ins, NoTemporal, << >>) :
        ad \in PlainAds \cup TypedAds, ins \in EngineInsights}
    \cup
    {Args(ad, ins, NoTemporal, << >>) :
        ad \in PlainAds, ins \in CounterInsights \cup {ZeroInsights, StringInsights}}
    \cup
    {Args(Ad("CONVERSIONS", FALSE, "", FALSE, NoCreative), ins, NoTemporal, demo) :
        ins \in {Scenario1Insights, Scenario3Insights, ZeroInsights, StringInsights},
        demo \in AllDemographics}
    \cup
    {Args(Ad("CONVERSIONS", FALSE, "", FALSE, NoCreative), ins, t, demo) :
        ins \in {Scenario1Insights, Scenario3Insights},
        t \in AllSeries, demo \in {<< >>, Scenario3Demographics}}
    \cup
    {Args(Ad(o, FALSE, "", FALSE, NoCreative), ins, NoTemporal, << >>) :
        o \in AllObjectives, ins \in BenchmarkInsights}
    \cup
    {Args(Ad("CONVERSIONS", FALSE, "", FALSE, NoCreative), Scenario3Insights,
          NoTemporal, demo) : demo \in BucketDemographics \cup {SameSegmentDemographics}}
    \cup
    {Args(ad, ins, t, demo) :
        ad \in CreativeAds, ins \in {Scenario1Insights, Scenario3Insights},
        t \in {NoTemporal} \cup {x \in AllSeries : Len(x.rows) = 1},
        demo \in {<< >>, Scenario3Demographics}}

-----------------------------------------------------------------------------
(* The state machine: show_ad_results calling the engine *)

Init ==
    /\ \E call \in Calls :
          /\ ad_details = call.ad_details
          /\ insights = call.insights
          /\ temporal_data = call.temporal_data
          /\ demographics = call.demographics
          /\ args0 = call
    /\ pc = "tab1"
    /\ recommendations = << >>
    /\ emitted = << >>
    /\ demo_df = << >>
    /\ error = "none"
    /\ gauges = NoMetrics
    /\ strategic = NoMetrics
    /\ tab4 = NothingRendered
    /\ tab5 = NotShown
    /\ top_segment = Unbound
    /\ quick = NoQuickList
    /\ calls = 1
    /\ first_output = << >>
    /\ sorted_before = [frame |-> << >>, first |-> 0]

\* what the tabs after the engine call render
Later == <<tab4, tab5, top_segment, quick>>

\* the record of the first call
Again == <<calls, first_output>>

Inputs == <<ad_details, insights, temporal_data, demographics, args0>>

\* show_ad_results lines 1178-1205: the gauges of the Performance tab
ShowPerformanceGauges ==
    /\ pc = "tab1"
    /\ gauges' = [computed |-> TRUE,
                  conversion_rate |-> GaugeConversionRate(insights),
                  cost_per_conversion |-> GaugeCostPerConversion(insights)]
    /\ IF GaugeConversionRate(insights).raised \/ GaugeCostPerConversion(insights).raised
       THEN pc' = "raised" /\ error' = "ZeroDivisionError"
       ELSE pc' = "ai_ctr" /\ error' = error
    /\ UNCHANGED <<Inputs, recommendations, emitted, demo_df, strategic, Later, Again, sorted_before>>

\* lines 99-124
AnalyzeCTR ==
    /\ pc = "ai_ctr"
    /\ IF CTRFires(insights)
       THEN IF CTRDiagnosisRaises(insights)
            THEN /\ pc' = "raised"
                 /\ error' = "ValueError: Unknown format code 'f' for object of type 'str'"
                 /\ UNCHANGED recommendations
            ELSE /\ recommendations' = Append(recommendations, CTRRec(ad_details, insights))
                 /\ pc' = "ai_cost"
                 /\ UNCHANGED error
       ELSE /\ pc' = "ai_cost"
            /\ UNCHANGED <<recommendations, error>>
    /\ UNCHANGED <<Inputs, emitted, demo_df, gauges, strategic, Later, Again, sorted_before>>

\* lines 126-145
AnalyzeCostPerConversion ==
    /\ pc = "ai_cost"
    /\ recommendations' =
          IF CostFires(ad_details, insights)
          THEN Append(recommendations, CostRec(ad_details, insights))
          ELSE recommendations
    /\ pc' = "ai_freq"
    /\ UNCHANGED <<Inputs, emitted, demo_df, error, gauges, strategic, Later, Again, sorted_before>>

\* lines 147-168
AnalyzeFrequency ==
    /\ pc = "ai_freq"
    /\ recommendations' =
          IF FrequencyFires(insights)
          THEN Append(recommendations, FrequencyRec(ad_details, insights))
          ELSE recommendations
    /\ pc' = "ai_demo"
    /\ UNCHANGED <<Inputs, emitted, demo_df, error, gauges, strategic, Later, Again, sorted_before>>

\* lines 170-196
AnalyzeDemographics ==
    /\ pc = "ai_demo"
    /\ IF demographics # << >> /\ DemoFrameRaises(demographics)
       THEN /\ pc' = "raised"
            /\ error' = "OverflowError: cannot convert float infinity to integer"
            /\ UNCHANGED <<recommendations, demo_df, sorted_before>>
       ELSE /\ IF DemoFrame(demographics) # << >>
               THEN /\ demo_df' = WithCpa(DemoFrame(demographics))
                    /\ \E w \in WorstPerforming(demo_df') :
                          /\ SameSortAsBefore(demo_df', w)
                          /\ sorted_before' = [frame |-> demo_df', first |-> w]
                          /\ recommendations' =
                              IF DemoFires(demo_df'[w], insights)
                              THEN Append(recommendations, DemoRec(demo_df'[w], insights))
                              ELSE recommendations
               ELSE /\ demo_df' = IF demographics # << >>
                                  THEN DemoFrame(demographics) ELSE demo_df
                    /\ UNCHANGED <<recommendations, sorted_before>>
            /\ pc' = "ai_temporal"
            /\ UNCHANGED error
    /\ UNCHANGED <<Inputs, emitted, gauges, strategic, Later, Again>>

\* lines 198-217
AnalyzeTemporal ==
    /\ pc = "ai_temporal"
    /\ IF temporal_data.is_none
       THEN /\ pc' = "ai_creative"
            /\ UNCHANGED <<temporal_data, recommendations, error>>
       ELSE /\ temporal_data' =
                  [temporal_data EXCEPT !.columns = @ \cup {"day_of_week", "hour"}]
            /\ IF temporal_data.rows = << >>
               THEN /\ pc' = "raised"
                    /\ error' = "ValueError: attempt to get argmax of an empty sequence"
                    /\ UNCHANGED recommendations
               ELSE /\ recommendations' =
                          Append(recommendations, ScheduleRec(temporal_data.rows))
                    /\ pc' = "ai_creative"
                    /\ UNCHANGED error
    /\ UNCHANGED <<ad_details, insights, demographics, args0, emitted, demo_df,
                   gauges, strategic, Later, Again, sorted_before>>

\* lines 219-223
AnalyzeCreatives ==
    /\ pc = "ai_creative"
    /\ recommendations' =
          IF ad_details.has_creative
          THEN recommendations \o analyze_creative_elements(ad_details.creative)
          ELSE recommendations
    /\ pc' = "ai_sort"
    /\ UNCHANGED <<Inputs, emitted, demo_df, error, gauges, strategic, Later, Again, sorted_before>>

\* lines 225-229
Prioritize ==
    /\ pc = "ai_sort"
    /\ emitted' = recommendations
    /\ recommendations' = SortBySeverity(recommendations)
    /\ pc' = IF calls = 1 THEN "ai_returned" ELSE "called_twice"
    /\ UNCHANGED <<Inputs, demo_df, error, gauges, strategic, Later, Again, sorted_before>>

\* generate_strategic_analysis lines 1474-1484, called at line 1426
StrategicMetrics ==
    /\ pc = "strategic_call"
    /\ LET m == [computed |-> TRUE,
                 ctr |-> StrategicCtr(insights),
                 conversion_rate |-> StrategicConversionRate(insights),
                 cost_per_conversion |-> StrategicCostPerConversion(insights),
                 cpm |-> StrategicCpm(insights),
                 cpc |-> StrategicCpc(insights)]
       IN /\ strategic' = m
          /\ IF m.conversion_rate.raised \/ m.cost_per_conversion.raised
                \/ m.cpm.raised \/ m.cpc.raised
             THEN pc' = "raised" /\ error' = "ZeroDivisionError"
             ELSE pc' = "strategic" /\ error' = error
    /\ UNCHANGED <<Inputs, recommendations, emitted, demo_df, gauges, Later, Again, sorted_before>>

\* show_ad_results lines 1316-1354: the success message, or one entry per
\* recommendation and the action plan
RenderRecommendations ==
    /\ pc = "ai_returned"
    /\ IF recommendations = << >>
       THEN tab4' = [rendered |-> TRUE, success |-> TRUE, entries |-> << >>,
                     action_plan |-> << >>]
       ELSE \E plan \in SortedPlans([i \in 1..Len(recommendations) |->
                                        PlanRow(recommendations[i])],
                                    1..Len(recommendations)) :
               tab4' = [rendered |-> TRUE, success |-> FALSE,
                        entries |-> [i \in 1..Len(recommendations) |->
                                        EntryOf(recommendations[i])],
                        action_plan |-> plan]
    /\ pc' = "tab5"
    /\ UNCHANGED <<Inputs, recommendations, emitted, demo_df, error, gauges,
                   strategic, tab5, top_segment, quick, Again, sorted_before>>

\* show_ad_results lines 1356-1367 and show_demographic_analysis
ShowDemographicAnalysis ==
    /\ pc = "tab5"
    /\ LET valid == SelectSeq(demographics, LAMBDA d : d.has_age /\ d.has_gender)
           groups == AgeGenderGroups(AnalysisFrame(valid))
       IN IF demographics = << >>
          THEN tab5' = Warned("Dados demograficos nao disponiveis")
          ELSE IF valid = << >>
          THEN tab5' = Warned("Dados demograficos nao contem idade e genero")
          ELSE IF groups = {}
          THEN tab5' = Warned("Nao ha dados suficientes para analise segmentada")
          ELSE \E t \in SortedTables(groups) :
                  tab5' = [status |-> "shown", table |-> t,
                           best |-> IdxMax(t, "conversion_rate"),
                           worst |-> IdxMin(t, "conversion_rate")]
    /\ pc' = "strategic_call"
    /\ UNCHANGED <<Inputs, recommendations, emitted, demo_df, error, gauges,
                   strategic, tab4, top_segment, quick, Again, sorted_before>>

\* generate_strategic_analysis lines 1534-1550: the segment of greatest ctr
StrategicSegments ==
    /\ pc = "strategic"
    /\ LET df == SegmentFrame(demographics)
       IN IF demographics = << >>
          THEN /\ pc' = "quick"
               /\ UNCHANGED <<top_segment, error>>
          ELSE IF df = << >>
          THEN /\ pc' = "raised"
               /\ error' = "UnboundLocalError: local variable 'top_segment'"
               /\ UNCHANGED top_segment
          ELSE /\ top_segment' = [bound |-> TRUE, row |-> df[IdxMax(df, "ctr")],
                                   strength |-> df[IdxMax(df, "ctr")].ctr > 3 * Scale]
               /\ pc' = "quick"
               /\ UNCHANGED error
    /\ UNCHANGED <<Inputs, recommendations, emitted, demo_df, gauges, strategic,
                   tab4, tab5, quick, Again, sorted_before>>

\* show_ad_results lines 1431-1450: the quick list and what is rendered of it
QuickRecommendations ==
    /\ pc = "quick"
    /\ quick' = RenderQuick(generate_performance_recommendations(insights, temporal_data))
    /\ pc' = "done"
    /\ UNCHANGED <<Inputs, recommendations, emitted, demo_df, error, gauges, strategic,
                   tab4, tab5, top_segment, Again, sorted_before>>

\* a second call of the engine with the same four objects, as the first call
\* left them; line 96 starts it with a new list
CallAgain ==
    /\ pc = "done"
    /\ calls = 1
    /\ first_output' = recommendations
    /\ calls' = 2
    /\ recommendations' = FreshList
    /\ pc' = "ai_ctr"
    /\ UNCHANGED <<Inputs, emitted, demo_df, error, gauges, strategic, Later,
                   sorted_before>>

Next ==
    \/ ShowPerformanceGauges
    \/ AnalyzeCTR
    \/ AnalyzeCostPerConversion
    \/ AnalyzeFrequency
    \/ AnalyzeDemographics
    \/ AnalyzeTemporal
    \/ AnalyzeCreatives
    \/ Prioritize
    \/ RenderRecommendations
    \/ ShowDemographicAnalysis
    \/ StrategicMetrics
    \/ StrategicSegments
    \/ QuickRecommendations
    \/ CallAgain

Spec == Init /\ [][Next]_vars

-----------------------------------------------------------------------------
(* Properties *)

CTRTitle == "Otimizacao de CTR Urgente"
CostTitle == "Reducao de Custo por Conversao"
FrequencyTitle == "Rotacao de Criativos Necessaria"
DemoTitle == "Ajuste de Segmentacao Demografica"

\* how many recommendations of `recs` carry the title, and at which severity
Emitted(recs, title, severity) ==
    Cardinality({i \in 1..Len(recs) :
                    recs[i].title = title /\ recs[i].severity = severity})
Titles(recs) == [i \in 1..Len(recs) |-> recs[i].title]

\* the engine has returned its list
Returned == pc \in {"ai_returned", "tab5", "strategic_call", "strategic", "quick", "done"}

OfSeverity(recs, severity) == SelectSeq(recs, LAMBDA r : r.severity = severity)

\* C1: the returned list is the emitted list reordered so that no recommendation
\* precedes one of a higher priority (high, then medium, then low), and within one
\* severity the recommendations keep the order in which the rules emitted them.
C1_PrioritizerIsStableSort ==
    Returned =>
        /\ \A i, j \in 1..Len(recommendations) :
              i < j => priority_order(recommendations[i].severity)
                          <= priority_order(recommendations[j].severity)
        /\ recommendations = OfSeverity(emitted, "high")
                                \o OfSeverity(emitted, "medium")
                                \o OfSeverity(emitted, "low")

\* a call whose emitted list had to be reordered and held two of one severity
\* with another recommendation between them
C1_Witness ==
    /\ Returned
    /\ recommendations # emitted
    /\ \E i, j, k \in 1..Len(emitted) :
          /\ i < j /\ j < k
          /\ emitted[i].severity = emitted[k].severity
          /\ emitted[j].severity # emitted[i].severity

\* C2: once the CTR step is over, exactly one high CTR-urgency recommendation
\* has been emitted if ctr x 100 < 1.05, and none otherwise.
C2_CTRUrgencyIffBelowThreshold ==
    pc \notin {"tab1", "ai_ctr"} =>
        Emitted(IF Returned THEN emitted ELSE recommendations, CTRTitle, "high")
            = IF safe_float(Get(insights, "ctr", Num(0)), 0) * 100 < 10500 THEN 1 ELSE 0

\* conversion_rate as the specification derives it: conversions / clicks, 0 at 0 clicks
DerivedConversionRate(ins) ==
    IF Counter(ins, "clicks") > 0
    THEN Ratio(Counter(ins, "conversions"), Counter(ins, "clicks"))
    ELSE 0

\* C3: once the cost step is over, one high cost-per-conversion recommendation has
\* been emitted exactly when cost_per_conversion > 0, the derived conversion rate
\* conversions/clicks is > 0, and cost_per_conversion > 1.2 x benchmark_for(objective).
C3_CostRuleIffDerivedMetrics ==
    pc = "ai_freq" =>
        Emitted(recommendations, CostTitle, "high")
            = IF /\ cost_per_conv(insights) > 0
                 /\ DerivedConversionRate(insights) > 0
                 /\ cost_per_conv(insights) * 10
                       > calculate_industry_benchmark(ad_details.campaign_objective) * 12
              THEN 1 ELSE 0

\* C4: Scenario 1 (objective CONVERSIONS, no temporal data, demographics or
\* creative) returns [CTR urgency, cost per conversion, frequency saturation].
C4_Scenario1Output ==
    (/\ Returned
     /\ insights = Scenario1Insights
     /\ ad_details = Ad("CONVERSIONS", FALSE, "", FALSE, NoCreative)
     /\ temporal_data.is_none
     /\ demographics = << >>)
        => Titles(recommendations) = <<CTRTitle, CostTitle, FrequencyTitle>>

\* C5: every ratio computed is 0 when its denominator is 0, at the aggregate level
\* (gauges, strategic analysis) and at the segment level (cpa of demo_df).
C5_ZeroDenominatorGivesZero ==
    /\ gauges.computed =>
          /\ Counter(insights, "clicks") = 0 => gauges.conversion_rate = Ok(0)
          /\ Counter(insights, "conversions") = 0 => gauges.cost_per_conversion = Ok(0)
    /\ strategic.computed =>
          /\ Counter(insights, "clicks") = 0 =>
                strategic.conversion_rate = Ok(0) /\ strategic.cpc = Ok(0)
          /\ Counter(insights, "conversions") = 0 => strategic.cost_per_conversion = Ok(0)
          /\ Counter(insights, "impressions") = 0 => strategic.cpm = Ok(0)
    /\ pc \notin {"tab1", "ai_ctr", "ai_cost", "ai_freq", "ai_demo"} =>
          \A i \in 1..Len(demo_df) : demo_df[i].conversions = 0 => demo_df[i].cpa = 0

\* C6: the aggregate conversion_rate and cpc are 0 at clicks = 0, the aggregate
\* cost_per_conversion is 0 at conversions = 0, the aggregate cpm is 0 at
\* impressions = 0, and no aggregate ratio raises a division error.
C6_AggregateRatiosGuarded ==
    /\ error # "ZeroDivisionError"
    /\ gauges.computed =>
          /\ ~gauges.conversion_rate.raised /\ ~gauges.cost_per_conversion.raised
          /\ Counter(insights, "clicks") = 0 => gauges.conversion_rate = Ok(0)
          /\ Counter(insights, "conversions") = 0 => gauges.cost_per_conversion = Ok(0)
    /\ strategic.computed =>
          /\ ~strategic.conversion_rate.raised /\ ~strategic.cost_per_conversion.raised
          /\ ~strategic.cpm.raised /\ ~strategic.cpc.raised
          /\ Counter(insights, "clicks") = 0 =>
                strategic.conversion_rate = Ok(0) /\ strategic.cpc = Ok(0)
          /\ Counter(insights, "conversions") = 0 => strategic.cost_per_conversion = Ok(0)
          /\ Counter(insights, "impressions") = 0 => strategic.cpm = Ok(0)

\* both sets of aggregate metrics computed for a record that spent money with
\* no impressions, clicks or conversions
C6_Witness ==
    /\ gauges.computed /\ strategic.computed
    /\ Counter(insights, "spend") > 0
    /\ Counter(insights, "impressions") = 0
    /\ Counter(insights, "clicks") = 0
    /\ Counter(insights, "conversions") = 0

\* cost_per_conversion of a segment as the specification derives it
GuardedSegmentCpa(row) ==
    IF row.conversions > 0 THEN PerUnit(row.spend, row.conversions) ELSE 0

\* C7: once the demographic step is over, one medium segmentation recommendation
\* has been emitted exactly when some row has an age and the greatest segment
\* cost_per_conversion exceeds 1.5 x the overall one; in Scenario 3 it names the
\* 55-64 female segment.
C7_DemographicRuleIffWorstExceeds ==
    pc = "ai_temporal" =>
        LET df == DemoFrame(demographics)
            rec == SelectSeq(recommendations, LAMBDA r : r.title = DemoTitle)
        IN /\ Emitted(recommendations, DemoTitle, "medium")
                = IF \E i \in 1..Len(df) :
                        /\ \A j \in 1..Len(df) :
                              GuardedSegmentCpa(df[j]) <= GuardedSegmentCpa(df[i])
                        /\ GuardedSegmentCpa(df[i]) * 10 > cost_per_conv(insights) * 15
                  THEN 1 ELSE 0
           /\ (demographics = Scenario3Demographics /\ insights = Scenario3Insights)
                 => /\ Len(rec) = 1
                    /\ rec[1].diagnosis.names = <<"55-64", "female">>

\* C8: with a present but empty series the best-day / best-hour computation
\* does not raise, so the engine call completes.
C8_EmptySeriesDoesNotRaise ==
    (~temporal_data.is_none /\ temporal_data.rows = << >>)
        => error # "ValueError: attempt to get argmax of an empty sequence"

\* C9: when the engine has returned, its four arguments are what they were
\* when it was called.
C9_InputsNotMutated ==
    Returned => Args(ad_details, insights, temporal_data, demographics) = args0

\* C10: whatever the representation of the frequency, cpm, ctr and
\* cost_per_conversion fields, no formatting error leaves the engine.
C10_MalformedFieldsNeverRaise ==
    error # "ValueError: Unknown format code 'f' for object of type 'str'"

\* C11: safe_int raises for no input: a demographics row whose impressions
\* field is a numeric string of infinite magnitude is converted to a number or
\* to the default, so no OverflowError leaves the conversion.
C11_NormalizersNeverRaise ==
    (\E i \in 1..Len(demographics) :
        demographics[i].has_age /\ demographics[i].impressions = InfStr)
        => error # "OverflowError: cannot convert float infinity to integer"

ScheduleTitle == "Otimizacao de Agendamento"
TextTitle == "Otimizacao de Texto"
CTATitle == "Adicionar Call-to-Action"

WithTitle(recs, titles) == SelectSeq(recs, LAMBDA r : r.title \in titles)

\* what the CTR, cost and frequency rules emit for an ad and its insights
CoreRecs(ad, ins) ==
    (IF CTRFires(ins) THEN <<CTRRec(ad, ins)>> ELSE << >>)
    \o (IF CostFires(ad, ins) THEN <<CostRec(ad, ins)>> ELSE << >>)
    \o (IF FrequencyFires(ins) THEN <<FrequencyRec(ad, ins)>> ELSE << >>)

NoAgeRows(demo) == \A i \in 1..Len(demo) : ~demo[i].has_age

\* C12: an absent optional input skips only its own rule and raises nothing:
\* with temporal_data None no scheduling recommendation is emitted, with no
\* demographic row carrying an age (an empty list included) no demographic
\* recommendation, with no creative descriptor neither creative recommendation;
\* the CTR, cost and frequency rules, and the rules whose inputs are present,
\* emit what they emit from their own inputs.
C12_AbsentInputsSkipOnlyTheirRule ==
    /\ temporal_data.is_none
          => error # "ValueError: attempt to get argmax of an empty sequence"
    /\ NoAgeRows(demographics)
          => error # "OverflowError: cannot convert float infinity to integer"
    /\ pc = "ai_sort" =>
          /\ WithTitle(recommendations, {CTRTitle, CostTitle, FrequencyTitle})
                = CoreRecs(ad_details, insights)
          /\ WithTitle(recommendations, {ScheduleTitle})
                = IF temporal_data.is_none THEN << >>
                  ELSE <<ScheduleRec(temporal_data.rows)>>
          /\ NoAgeRows(demographics) => WithTitle(recommendations, {DemoTitle}) = << >>
          /\ WithTitle(recommendations, {TextTitle, CTATitle})
                = IF ad_details.has_creative
                  THEN analyze_creative_elements(ad_details.creative)
                  ELSE << >>

\* a call with no series, rows that all lack an age and no creative, for which
\* the other rules emitted something
C12_Witness ==
    /\ pc = "ai_sort"
    /\ temporal_data.is_none
    /\ demographics # << >> /\ NoAgeRows(demographics)
    /\ ~ad_details.has_creative
    /\ recommendations # << >>

\* C13: every recommendation emitted carries an action list of at least 2 and
\* at most 4 items, the frequency recommendation of a video ad included.
C13_ActionListBetween2And4 ==
    \A i \in 1..Len(recommendations) :
        Len(recommendations[i].actions) >= 2 /\ Len(recommendations[i].actions) <= 4

Severities(recs) == {recs[i].severity : i \in 1..Len(recs)}

\* C14: the severity of every recommendation, emitted or returned, is one of
\* high, medium and low.
C14_SeverityIsHighMediumOrLow ==
    /\ Severities(recommendations) \subseteq {"high", "medium", "low"}
    /\ Severities(emitted) \subseteq {"high", "medium", "low"}

\* a returned list that holds all three severities
C14_Witness ==
    Returned /\ Severities(recommendations) = {"high", "medium", "low"}

VideoActions ==
    << Txt("Testar versao resumida do video (15-30s)", <<>>, <<>>),
       Txt("Adicionar hook nos primeiros 3 segundos", <<>>, <<>>) >>

IsVideo(ad) == ad.has_ad_type /\ ad.ad_type = "video"

\* C15: once the frequency step is over, one medium creative-rotation
\* recommendation has been emitted exactly when frequency > 3.5 (none at 3.5),
\* and its action list ends with the two video actions exactly when ad_type
\* is video.
C15_FrequencyRuleIffAbove35 ==
    pc = "ai_demo" =>
        LET fired == WithTitle(recommendations, {FrequencyTitle})
        IN /\ Len(fired) = IF freq_of(insights) > 35000 THEN 1 ELSE 0
           /\ \A i \in 1..Len(fired) :
                 /\ fired[i].severity = "medium"
                 /\ IF IsVideo(ad_details)
                    THEN /\ Len(fired[i].actions) = 5
                         /\ SubSeq(fired[i].actions, 4, 5) = VideoActions
                    ELSE /\ Len(fired[i].actions) = 3
                         /\ \A k \in 1..3 : fired[i].actions[k] \notin
                                {VideoActions[1], VideoActions[2]}

\* the frequency step has fired for a video ad
C15_Witness ==
    /\ pc = "ai_demo"
    /\ IsVideo(ad_details)
    /\ freq_of(insights) > 35000
    /\ WithTitle(recommendations, {FrequencyTitle}) # << >>

\* the scheduling recommendation names a weekday and an hour of greatest
\* summed conversions
NamesBestDayAndHour(rec, rows) ==
    /\ \E i \in 1..Len(rows) : day_name(rows[i].date_start) = rec.diagnosis.names[1]
    /\ \E i \in 1..Len(rows) : rows[i].date_start.hour = rec.diagnosis.nums[1]
    /\ \A k \in 1..7 : DaySum(rows, DayNames[k]) <= DaySum(rows, rec.diagnosis.names[1])
    /\ \A h \in 0..23 : HourSum(rows, h) <= HourSum(rows, rec.diagnosis.nums[1])

\* C16: for every series that is present (not None), whatever its conversion
\* values, the scheduling step raises nothing and, once it is over, exactly one
\* low scheduling recommendation has been emitted, naming the weekday and the
\* hour whose summed conversions are greatest.
C16_SchedulingFiresForEverySeries ==
    ~temporal_data.is_none =>
        /\ error # "ValueError: attempt to get argmax of an empty sequence"
        /\ pc \in {"ai_creative", "ai_sort"} =>
              LET fired == WithTitle(recommendations, {ScheduleTitle})
              IN /\ Len(fired) = 1
                 /\ fired[1].severity = "low"
                 /\ NamesBestDayAndHour(fired[1], temporal_data.rows)

\* C17: once the creative step is over, one high missing-call-to-action
\* recommendation has been emitted exactly when ad_details holds a creative
\* that has no cta field or an empty cta; none without a creative and none
\* when cta is a non-empty string.
C17_MissingCTAIffNoCta ==
    pc = "ai_sort" =>
        /\ Emitted(recommendations, CTATitle, "high")
              = IF /\ ad_details.has_creative
                   /\ (~ad_details.creative.has_cta \/ ad_details.creative.cta = "")
                THEN 1 ELSE 0
        /\ Len(WithTitle(recommendations, {CTATitle}))
              = Emitted(recommendations, CTATitle, "high")

\* a creative whose cta field is there and empty: the rule has fired
C17_Witness ==
    /\ pc = "ai_sort"
    /\ ad_details.has_creative
    /\ ad_details.creative.has_cta /\ ad_details.creative.cta = ""
    /\ Emitted(recommendations, CTATitle, "high") = 1

\* C18: once the creative step is over, one medium text-length recommendation
\* has been emitted exactly when ad_details holds a creative with a
\* primary_text of more than 125 words; none at exactly 125 words.
C18_TextLengthIffOver125Words ==
    pc = "ai_sort" =>
        /\ Emitted(recommendations, TextTitle, "medium")
              = IF /\ ad_details.has_creative
                   /\ ad_details.creative.has_primary_text
                   /\ ad_details.creative.word_count > 125
                THEN 1 ELSE 0
        /\ Len(WithTitle(recommendations, {TextTitle}))
              = Emitted(recommendations, TextTitle, "medium")

\* a primary_text of exactly 125 words: the rule has not fired
C18_Witness ==
    /\ pc = "ai_sort"
    /\ ad_details.has_creative
    /\ ad_details.creative.has_primary_text
    /\ ad_details.creative.word_count = 125
    /\ WithTitle(recommendations, {TextTitle}) = << >>

\* the table of the specification, in 1/Scale units
benchmark_for(objective) ==
    CASE objective = "CONVERSIONS"     -> 25 * Scale
      [] objective = "LEAD_GENERATION" -> 15 * Scale
      [] objective = "LINK_CLICKS"     -> (120 * Scale) \div 100
      [] objective = "REACH"           -> 5 * Scale
      [] objective = "BRAND_AWARENESS" -> 10 * Scale
      [] objective = "VIDEO_VIEWS"     -> (50 * Scale) \div 100
      [] OTHER                         -> 20 * Scale

\* C19: the benchmark the cost step looks up is 25.00 for CONVERSIONS, 15.00 for
\* LEAD_GENERATION, 1.20 for LINK_CLICKS, 5.00 for REACH, 10.00 for
\* BRAND_AWARENESS, 0.50 for VIDEO_VIEWS and 20.00 for any other objective: the
\* step raises nothing, fires exactly above 1.2 x that value, and cites that
\* value in its diagnosis.
C19_BenchmarkTable ==
    pc = "ai_freq" =>
        LET fired == WithTitle(recommendations, {CostTitle})
        IN /\ (cost_per_conv(insights) > 0 /\ conv_rate(insights) > 0) =>
                 Len(fired) = IF cost_per_conv(insights) * 10
                                    > benchmark_for(ad_details.campaign_objective) * 12
                              THEN 1 ELSE 0
           /\ \A i \in 1..Len(fired) :
                 fired[i].diagnosis.nums[2] = benchmark_for(ad_details.campaign_objective)

\* the cost step has looked up an objective that is not in the table, and fired
C19_Witness ==
    /\ pc = "ai_freq"
    /\ ad_details.campaign_objective = "OUTCOME_SALES"
    /\ WithTitle(recommendations, {CostTitle}) # << >>

\* C20: for an objective that is not one of the six of the table, such as
\* 'N/A', the cost-per-conversion rule judges against the fixed benchmark 50.0
\* and not against the 20.00 fallback: it does not fire for a cost per
\* conversion of at most 50.0, and the benchmark it cites is 50.0.
C20_UnknownObjectiveUsesFixedBenchmark ==
    (pc = "ai_freq" /\ ad_details.campaign_objective \notin TableObjectives) =>
        LET fired == WithTitle(recommendations, {CostTitle})
        IN /\ cost_per_conv(insights) <= 50 * Scale => fired = << >>
           /\ \A i \in 1..Len(fired) : fired[i].diagnosis.nums[2] = 50 * Scale

Parsable(age_str) == IsRange(age_str) \/ age_str = "65+"

\* the order of the specification: ranges by lower then upper bound, '65+'
\* after every range, every unparsable bucket after every parsable one
BucketBefore(a, b) ==
    \/ IsRange(a) /\ IsRange(b) /\ TupleLess(RangeBounds(a), RangeBounds(b))
    \/ IsRange(a) /\ b = "65+"
    \/ Parsable(a) /\ ~Parsable(b)

Ages(table) == [i \in 1..Len(table) |-> table[i].age]

\* C21: in the table the demographic tab shows, no bucket comes after a bucket
\* it should precede: ranges are ordered by lower bound, then upper bound,
\* "65+" comes after every range "A-B" and an unparsable bucket after every
\* parsable one; the buckets 45-54, 18-24, 65+, 35-44 are shown as
\* 18-24, 35-44, 45-54, 65+.
C21_AgeBucketsInNumericOrder ==
    tab5.status = "shown" =>
        /\ \A i, j \in 1..Len(tab5.table) :
              i < j => ~BucketBefore(tab5.table[j].age, tab5.table[i].age)
        /\ demographics = Scenario4Demographics
              => Ages(tab5.table) = <<"18-24", "35-44", "45-54", "65+">>

\* the (age, gender) groups of the rows of a frame, spend and conversions
\* summed, cost_per_conversion computed from the sums
SegmentSums(df) ==
    {LET rows == SelectSeq(df, LAMBDA r : r.age = k[1] /\ r.gender = k[2])
     IN [age |-> k[1], gender |-> k[2],
         cpa |-> PerUnit(SumColumn(rows, "spend"), SumColumn(rows, "conversions"))]
     : k \in {<<df[i].age, df[i].gender>> : i \in 1..Len(df)}}

WorstSegments(groups) == {g \in groups : \A h \in groups : h.cpa <= g.cpa}

\* C22: once the demographic step is over (rows that all have conversions),
\* the rule has judged the (age, gender) groups, not the rows: it has fired
\* exactly when the greatest cost per conversion of a group, computed from the
\* group's summed spend and conversions, exceeds 1.5 x the overall value, and
\* the segment it names is a group of that greatest value.
C22_WorstSegmentIsJudgedPerGroup ==
    (/\ pc = "ai_temporal"
     /\ DemoFrame(demographics) # << >>
     /\ \A i \in 1..Len(demographics) : demographics[i].conversions > 0) =>
        LET groups == SegmentSums(DemoFrame(demographics))
            fired == WithTitle(recommendations, {DemoTitle})
        IN /\ Len(fired) = IF \E g \in groups : g.cpa * 10 > cost_per_conv(insights) * 15
                           THEN 1 ELSE 0
           /\ \A i \in 1..Len(fired) :
                 \E g \in WorstSegments(groups) :
                    /\ fired[i].diagnosis.names[1] = g.age
                    /\ fired[i].diagnosis.names[2] = g.gender
                    /\ fired[i].diagnosis.nums[1] = g.cpa

\* C23: a second call of the engine with the same ad_details, insights,
\* temporal_data and demographics objects returns the list the first call
\* returned: the same recommendations with the same fields in the same order.
C23_SecondCallReturnsTheSameList ==
    pc = "called_twice" => recommendations = first_output

\* a second call that was given a series the first call had added columns to
C23_Witness ==
    /\ pc = "called_twice"
    /\ ~temporal_data.is_none
    /\ "day_of_week" \notin args0.temporal_data.columns
    /\ "day_of_week" \in temporal_data.columns
    /\ Len(recommendations) >= 2

\* the list the first engine call returned
FirstList == IF calls = 1 THEN recommendations ELSE first_output

\* C24: when the engine's list is empty the recommendations tab shows the
\* success message and no entry and no action plan, and when the quick list is
\* empty its section shows the success message and no entry; a list that is
\* not empty is shown without the success message.
C24_EmptyListRendersSuccess ==
    /\ tab4.rendered =>
          IF FirstList = << >>
          THEN tab4.success /\ tab4.entries = << >> /\ tab4.action_plan = << >>
          ELSE ~tab4.success /\ Len(tab4.entries) = Len(FirstList)
    /\ quick.rendered =>
          IF quick.recs = << >>
          THEN quick.success /\ quick.entries = << >>
          ELSE ~quick.success /\ Len(quick.entries) = Len(quick.recs)

\* both lists were empty and both sections have been rendered
C24_Witness ==
    /\ tab4.rendered /\ FirstList = << >>
    /\ quick.rendered /\ quick.recs = << >>

\* the place of a rule's recommendation in the fixed order of the output
FixedOrder(title) ==
    CASE title = CTRTitle -> 1
      [] title = CostTitle -> 2
      [] title = CTATitle -> 3
      [] title = FrequencyTitle -> 4
      [] title = DemoTitle -> 5
      [] title = TextTitle -> 6
      [] title = ScheduleTitle -> 7

\* C25: the list the engine returns holds at most 7 recommendations, at most
\* one of each rule, in the order CTR urgency, cost per conversion, missing
\* CTA, frequency, demographic segmentation, text length, scheduling.
C25_OutputIsSubsequenceOfFixedOrder ==
    (Returned \/ pc = "called_twice") =>
        /\ Len(recommendations) <= 7
        /\ \A i, j \in 1..Len(recommendations) :
              i < j => FixedOrder(recommendations[i].title)
                          < FixedOrder(recommendations[j].title)

\* a returned list in which the sort has moved the missing-CTA recommendation
\* ahead of the mediums and the text-length recommendation ahead of scheduling
C25_Witness ==
    /\ Returned
    /\ Len(recommendations) >= 5
    /\ \E i, j \in 1..Len(recommendations) :
          /\ recommendations[i].title = CTATitle
          /\ recommendations[j].title = TextTitle
    /\ \E i \in 1..Len(recommendations) : recommendations[i].title = ScheduleTitle

\* C26: with an overall cost_per_conversion of 0 the demographic step flags no
\* segment: once it is over, no segmentation recommendation has been emitted,
\* and no diagnosis holds a division by the zero overall value.
C26_NoSegmentFlaggedAtZeroOverallCost ==
    (pc = "ai_temporal" /\ cost_per_conv(insights) = 0) =>
        /\ WithTitle(recommendations, {DemoTitle}) = << >>
        /\ \A i \in 1..Len(recommendations) :
              recommendations[i].title = DemoTitle
                 => \A k \in 1..Len(recommendations[i].diagnosis.names) :
                       recommendations[i].diagnosis.names[k] # "inf"

QuickFinds(recs, title) == \E i \in 1..Len(recs) : recs[i].title = title

\* C27: the two pipelines agree on the signals they share. For every insights
\* record for which the quick pipeline gives its low-CTR finding, the engine,
\* once its CTR step is over, has emitted the CTR-urgency recommendation; and
\* when the series is present with a mean frequency equal to the frequency of
\* the insights record, the quick pipeline gives its frequency finding exactly
\* when the engine gave its frequency recommendation.
C27_PipelinesAgreeOnSharedSignals ==
    /\ (/\ calls = 1
        /\ pc \notin {"tab1", "ai_ctr"}
        /\ QuickFinds(generate_performance_recommendations(insights, temporal_data),
                      "CTR Baixo"))
          => Len(WithTitle(IF Returned THEN emitted ELSE recommendations, {CTRTitle})) = 1
    /\ (/\ quick.rendered
        /\ ~temporal_data.is_none
        /\ temporal_data.rows # << >>
        /\ SumColumn(temporal_data.rows, "frequency")
              = freq_of(insights) * Len(temporal_data.rows))
          => (QuickFinds(quick.recs, "Frequencia Elevada")
                <=> WithTitle(FirstList, {FrequencyTitle}) # << >>)

\* an order of the labels by severity
SeverityOrder(prioridade) ==
    CASE prioridade = "Alta" -> 0
      [] prioridade = "Media" -> 1
      [] prioridade = "Baixa" -> 2

\* C28: the action plan shows one row per recommendation, each with the first
\* action of its recommendation, every Alta row before every Media row and
\* every Media row before every Baixa row.
C28_ActionPlanInSeverityOrder ==
    tab4.rendered =>
        /\ Len(tab4.action_plan) = Len(FirstList)
        /\ \A i \in 1..Len(tab4.action_plan) :
              \E k \in 1..Len(FirstList) :
                 /\ tab4.action_plan[i].Acao = FirstList[k].actions[1]
                 /\ tab4.action_plan[i].Prioridade = PlanRow(FirstList[k]).Prioridade
        /\ \A i, j \in 1..Len(tab4.action_plan) :
              i < j => SeverityOrder(tab4.action_plan[i].Prioridade)
                          <= SeverityOrder(tab4.action_plan[j].Prioridade)

NoAgeGenderRows(demo) == \A i \in 1..Len(demo) : ~(demo[i].has_age /\ demo[i].has_gender)

\* C29: for a Demographics list that is not empty, one with no row that has
\* both an age and a gender included, the segment block of the strategic
\* analysis raises nothing; with no such row it selects no top segment.
C29_StrategicAnalysisCompletes ==
    demographics # << >> =>
        /\ error # "UnboundLocalError: local variable 'top_segment'"
        /\ (pc \in {"quick", "done"} /\ NoAgeGenderRows(demographics))
              => ~top_segment.bound

\* C30: the bid window of every scheduling recommendation, best_hour - 1 to
\* best_hour + 1, lies within the hours 0..23 of a day, for a daily series
\* whose rows all carry hour 0 as for any other.
C30_BidWindowWithinHoursOfDay ==
    \A i \in 1..Len(recommendations) :
        recommendations[i].title = ScheduleTitle =>
            \A k \in 1..Len(recommendations[i].actions[2].nums) :
                recommendations[i].actions[2].nums[k] \in 0..23

=============================================================================
